---- MODULE Spec2Model ----
(***************************************************************************)
(* A model of 5Head's multiverse position: Board2D (piece bookkeeping),    *)
(* Timeline (ply-indexed boards) and Position (timeline activation).       *)
(* Sources: position.cpp (src/unnamed/part_000), position.h                *)
(* (src/unnamed/part_001), src/src/types.h, src/src/test.cpp.              *)
(***************************************************************************)
EXTENDS Integers, Sequences, FiniteSets, TLC

(***************************************************************************)
(* Bounds of the model.                                                    *)
(***************************************************************************)
\* edge length of the modelled corner of the 8 x 8 board arrays; a board
\* uses the boardWidth x boardWidth squares its FEN gives it
BoardEdge == 2
\* most pieces placed on one board by the piece-editing actions
MaxOnBoard == 3
\* most negative / non-central positive FENs handed to Position::set
MaxInitSide == 2
\* most non-central timelines per side
MaxLines == 3
\* most boards allocated in one Position
MaxBoards == 6
\* most boards append_board grows a timeline to (the central line of
\* SpecAccess starts with up to MaxPlies + 1)
MaxPlies == 2
\* most put_piece / remove_piece calls on the board a branch returned
MaxEdits == 2

(***************************************************************************)
(* types.h                                                                 *)
(***************************************************************************)
WHITE == 0
BLACK == 1
Color == {WHITE, BLACK}

NO_PIECE == 0
W_KNIGHT == 2
W_KING == 6
B_KING == 14
ALL_PIECES == 0
\* length of one row of Board2D::pieceList
LIST_NB == 16
SQ_NONE == 64
NORTH == 8
EAST == 1
SOUTH == -8
WEST == -1

other_color(c) == 1 - c

make_square2d(f, r) == r * 8 + f

make_piece(c, pt) == c * 8 + pt

color_of(pc) == pc \div 8

file_of(s) == s % 8

rank_of(s) == s \div 8

\* the pieces the modelled callers place
Pieces == {W_KNIGHT, W_KING, B_KING}
\* the rows of pieceCount / pieceList those pieces touch
PieceIdx == Pieces \cup {make_piece(WHITE, ALL_PIECES), make_piece(BLACK, ALL_PIECES)}
\* the squares of a BoardEdge x BoardEdge board
Squares == {make_square2d(f, r) : f \in 0..(BoardEdge - 1), r \in 0..(BoardEdge - 1)}
Slots == 0..(LIST_NB - 1)

(***************************************************************************)
(* Board2D                                                                 *)
(***************************************************************************)
\* std::memset(this, 0, ..) followed by the fill of pieceList with SQ_NONE
EmptyBoard ==
  [boardWidth |-> 0,
   board      |-> [s \in Squares |-> NO_PIECE],
   pieceCount |-> [p \in PieceIdx |-> 0],
   pieceList  |-> [p \in PieceIdx |-> [i \in Slots |-> SQ_NONE]],
   index      |-> [s \in Squares |-> 0],
   sideToMove |-> WHITE]

piece_on(b, s) == b.board[s]

empty(b, s) == piece_on(b, s) = NO_PIECE

put_piece(b, pc, s) ==
  LET idx == b.pieceCount[pc]
      cnt1 == [b.pieceCount EXCEPT ![pc] = @ + 1]
      all == make_piece(color_of(pc), ALL_PIECES)
  IN [b EXCEPT !.board[s] = pc,
               !.index[s] = idx,
               !.pieceCount = [cnt1 EXCEPT ![all] = @ + 1],
               !.pieceList[pc][idx] = s]

\* the relocation of the last entry into the vacated slot is dropped
remove_piece_norelocate(b, s) ==
  LET pc == b.board[s]
      n == b.pieceCount[pc] - 1
      all == make_piece(color_of(pc), ALL_PIECES)
      cnt1 == [b.pieceCount EXCEPT ![pc] = n]
  IN [b EXCEPT !.board[s] = NO_PIECE,
               !.pieceList[pc][n] = SQ_NONE,
               !.pieceCount = [cnt1 EXCEPT ![all] = @ - 1]]

remove_piece(b, s) ==
  LET pc == b.board[s]
      n == b.pieceCount[pc] - 1
      lastSquare == b.pieceList[pc][n]
      idx1 == [b.index EXCEPT ![lastSquare] = b.index[s]]
      list1 == [b.pieceList[pc] EXCEPT ![idx1[lastSquare]] = lastSquare]
      list2 == [list1 EXCEPT ![n] = SQ_NONE]
      all == make_piece(color_of(pc), ALL_PIECES)
      cnt1 == [b.pieceCount EXCEPT ![pc] = n]
  IN [b EXCEPT !.board[s] = NO_PIECE,
               !.index = idx1,
               !.pieceList[pc] = list2,
               !.pieceCount = [cnt1 EXCEPT ![all] = @ - 1]]

\* the turn is not passed
passTurn_noflip(b) == b

passTurn(b) == [b EXCEPT !.sideToMove = other_color(b.sideToMove)]

(***************************************************************************)
(* Board2D::set: the FEN reader.  A FEN is a sequence of characters.       *)
(***************************************************************************)
PieceToChar == <<" ", "P", "N", "B", "R", "Q", "K", " ", " ", "p", "n", "b", "r", "q", "k">>

Digits == <<"0", "1", "2", "3", "4", "5", "6", "7", "8", "9">>

isdigit(ch) == \E i \in 1..Len(Digits) : Digits[i] = ch

DigitVal(ch) == (CHOOSE i \in 1..Len(Digits) : Digits[i] = ch) - 1

isspace(ch) == ch = " "

\* std::string::find: the 0-based position of the first match, -1 for npos
PieceToCharFind(ch) ==
  IF \E i \in 1..Len(PieceToChar) : PieceToChar[i] = ch
  THEN (CHOOSE i \in 1..Len(PieceToChar) :
          /\ PieceToChar[i] = ch
          /\ \A j \in 1..(i - 1) : PieceToChar[j] # ch) - 1
  ELSE -1

RECURSIVE FenWidth(_, _, _)
FenWidth(fenStr, i, width) ==
  IF i > Len(fenStr) \/ isspace(fenStr[i]) THEN width
  ELSE IF isdigit(fenStr[i]) THEN FenWidth(fenStr, i + 1, width + DigitVal(fenStr[i]))
  ELSE IF fenStr[i] = "/" THEN width
  ELSE FenWidth(fenStr, i + 1, width + 1)

\* the index of the first whitespace character
RECURSIVE FenSpace(_, _)
FenSpace(fenStr, i) ==
  IF i > Len(fenStr) \/ isspace(fenStr[i]) THEN i ELSE FenSpace(fenStr, i + 1)

RECURSIVE FenPieces(_, _, _, _, _)
FenPieces(fenStr, i, sq, width, b) ==
  IF i > Len(fenStr) \/ isspace(fenStr[i]) THEN b
  ELSE IF isdigit(fenStr[i])
    THEN FenPieces(fenStr, i + 1, sq + DigitVal(fenStr[i]) * EAST, width, b)
  ELSE IF fenStr[i] = "/"
    THEN FenPieces(fenStr, i + 1, sq + width * WEST + SOUTH, width, b)
  ELSE IF PieceToCharFind(fenStr[i]) # -1
    THEN FenPieces(fenStr, i + 1, sq + 1, width, put_piece(b, PieceToCharFind(fenStr[i]), sq))
  ELSE FenPieces(fenStr, i + 1, sq, width, b)

Board2DSet(fenStr) ==
  LET width == FenWidth(fenStr, 1, 0)
      b0 == [EmptyBoard EXCEPT !.boardWidth = width]
      b1 == FenPieces(fenStr, 1, make_square2d(0, 0) + (width - 1) * NORTH, width, b0)
      sp == FenSpace(fenStr, 1)
      token == IF sp + 1 <= Len(fenStr) THEN fenStr[sp + 1] ELSE " "
  IN [b1 EXCEPT !.sideToMove = IF token = "w" THEN WHITE ELSE BLACK]

\* the FENs the modelled callers hand to Position::set: "1k/KN w", "k1/1K b"
FenPool == { <<"1", "k", "/", "K", "N", " ", "w">>,
             <<"k", "1", "/", "1", "K", " ", "b">> }

\* the FENs read into a single board: those, and "2/2 w", "NN/2 b"
BoardFenPool == FenPool \cup { <<"2", "/", "2", " ", "w">>,
                               <<"N", "N", "/", "2", " ", "b">> }

(***************************************************************************)
(* The state: one Position, the boards it allocated, and the caller's view *)
(***************************************************************************)
VARIABLES
  heap,                 \* the Board2D objects created by new, by address (1..)
  negativeLines,        \* Position::negativeLines
  positiveLines,        \* Position::positiveLines; the first is the central line
  activePositiveLines,  \* Position::activePositiveLines
  activeNegativeLines,  \* Position::activeNegativeLines
  timeOfPresent,        \* Position::timeOfPresent
  sideToMove,           \* Position::sideToMove
  status,               \* "running"; once an assert has failed, "aborted"
                        \* or, in a build with NDEBUG, "unchecked"; "crashed"
                        \* once an access outside an array has ended the program
  negativeFENs,         \* the arguments of the latest Position::set
  positiveFENs,
  ret,                  \* the Board2D& the caller holds (0: none)
  edits,                \* piece edits made through ret since the latest set
  last                  \* the latest call and its arguments

vars == <<heap, negativeLines, positiveLines, activePositiveLines,
          activeNegativeLines, timeOfPresent, sideToMove, status,
          negativeFENs, positiveFENs, ret, edits, last>>

posVars == <<negativeLines, positiveLines, activePositiveLines,
             activeNegativeLines, timeOfPresent, sideToMove>>

Min(a, b) == IF a < b THEN a ELSE b

(***************************************************************************)
(* Timeline.  boards holds heap addresses; C++ index i is element i + 1.   *)
(***************************************************************************)
Timeline(setStartTime, setStartColor) ==
  [startTime |-> setStartTime, startColor |-> setStartColor,
   active |-> FALSE, boards |-> <<>>]

\* the colour of the ply is ignored
plyToBoardIdx_nocolor(tl, time, c) ==
  LET dt == time - tl.startTime
  IN 2 * dt

plyToBoardIdx(tl, time, c) ==
  LET dt == time - tl.startTime
      dc == c - tl.startColor
  IN 2 * dt + dc

has_board_on_turn(tl, time, c) == plyToBoardIdx(tl, time, c) < 0

board_on_turn(tl, time, c) == tl.boards[plyToBoardIdx(tl, time, c) + 1]

append_board(tl, newBoard) == [tl EXCEPT !.boards = Append(@, newBoard)]

\* the flag is flipped
activate_toggle(tl) == [tl EXCEPT !.active = ~@]

activate(tl) == [tl EXCEPT !.active = TRUE]

start_time(tl) == tl.startTime

is_active(tl) == tl.active

first_board(tl) == tl.boards[1]

(***************************************************************************)
(* Position.  A position value P is the record of the Position's fields.   *)
(***************************************************************************)
Pos ==
  [negativeLines |-> negativeLines, positiveLines |-> positiveLines,
   activePositiveLines |-> activePositiveLines,
   activeNegativeLines |-> activeNegativeLines,
   timeOfPresent |-> timeOfPresent, sideToMove |-> sideToMove]

negative_timeline_count(P) == Len(P.negativeLines)

positive_timeline_count(P) == Len(P.positiveLines) - 1

timeline(P, l) ==
  IF l >= 0 THEN P.positiveLines[l + 1] ELSE P.negativeLines[(-l - 1) + 1]

\* the timeline indices that name a timeline of P
LineIds(P) == (-(negative_timeline_count(P)))..positive_timeline_count(P)

\* the negative FENs are loaded in the order given
SetNegBoards_asgiven(negFENs) ==
  [k \in 1..Len(negFENs) |-> Board2DSet(negFENs[k])]

\* the boards created by the first loop of Position::set, in creation order
SetNegBoards(negFENs) ==
  [k \in 1..Len(negFENs) |-> Board2DSet(negFENs[Len(negFENs) - k + 1])]

SetPosBoards(posFENs) == [j \in 1..Len(posFENs) |-> Board2DSet(posFENs[j])]

\* a loaded timeline is left inactive
SetLine_inactive(h, id) == append_board(Timeline(1, h[id].sideToMove), id)

\* Timeline tl(1, board->side_to_move()); append_board; activate
SetLine(h, id) == activate(append_board(Timeline(1, h[id].sideToMove), id))

PositionSet(negFENs, posFENs) ==
  LET h == SetNegBoards(negFENs) \o SetPosBoards(posFENs)
      n == Len(negFENs)
      pl == [j \in 1..Len(posFENs) |-> SetLine(h, n + j)]
  IN [heap |-> h,
      pos |-> [negativeLines |-> [k \in 1..n |-> SetLine(h, k)],
               positiveLines |-> pl,
               activePositiveLines |-> Len(posFENs) - 1,
               activeNegativeLines |-> n,
               timeOfPresent |-> 1,
               sideToMove |-> h[first_board(pl[1])].sideToMove]]

\* the new timeline refers to the source board itself, no copy is made
CopyBoard_alias(h, src) == [heap |-> h, id |-> src]

\* Board2D* newBoard = new Board2D(targetBoard): a new object, equal by value
CopyBoard(h, src) == [heap |-> Append(h, h[src]), id |-> Len(h) + 1]

\* the start time ignores the mover
BranchTimeline_sametime(P, h, id, branchTime) ==
  append_board(Timeline(branchTime, h[id].sideToMove), id)

\* the start coordinate and first board of the branch
BranchTimeline(P, h, id, branchTime) ==
  append_board(Timeline(branchTime + P.sideToMove, h[id].sideToMove), id)

\* the assert of the secondary activation, for either mover
BranchAssert(P) ==
  LET pos_cnt == positive_timeline_count(P)
      neg_cnt == negative_timeline_count(P)
  IN IF P.sideToMove = WHITE
     THEN pos_cnt < neg_cnt - 1 => ~is_active(P.negativeLines[(pos_cnt + 1) + 1])
     ELSE neg_cnt < pos_cnt - 1 => ~is_active(P.positiveLines[(neg_cnt + 2) + 1])

\* the secondary activation leaves the balancing timeline as it is
WhiteBranch_nobalance(P, newTimeline) ==
  LET pos_cnt == positive_timeline_count(P)
      neg_cnt == negative_timeline_count(P)
  IN IF pos_cnt = neg_cnt \/ pos_cnt = neg_cnt - 1
     THEN [P EXCEPT !.activePositiveLines = @ + 1,
                    !.timeOfPresent = Min(@, start_time(newTimeline)),
                    !.positiveLines = Append(@, activate(newTimeline))]
     ELSE IF pos_cnt < neg_cnt - 1
     THEN [P EXCEPT !.activePositiveLines = @ + 1,
                    !.activeNegativeLines = @ + 1,
                    !.timeOfPresent =
                       Min(@, Min(start_time(newTimeline),
                                  start_time(P.negativeLines[(pos_cnt + 1) + 1]))),
                    !.positiveLines = Append(@, activate(newTimeline))]
     ELSE [P EXCEPT !.positiveLines = Append(@, newTimeline)]

\* the surplus branch is activated like any other
WhiteBranch_surplusactive(P, newTimeline) ==
  LET pos_cnt == positive_timeline_count(P)
      neg_cnt == negative_timeline_count(P)
  IN IF pos_cnt < neg_cnt - 1
     THEN [P EXCEPT !.activePositiveLines = @ + 1,
                    !.negativeLines[(pos_cnt + 1) + 1] = activate(@),
                    !.activeNegativeLines = @ + 1,
                    !.timeOfPresent =
                       Min(@, Min(start_time(newTimeline),
                                  start_time(P.negativeLines[(pos_cnt + 1) + 1]))),
                    !.positiveLines = Append(@, activate(newTimeline))]
     ELSE [P EXCEPT !.activePositiveLines = @ + 1,
                    !.timeOfPresent = Min(@, start_time(newTimeline)),
                    !.positiveLines = Append(@, activate(newTimeline))]

WhiteBranch(P, newTimeline) ==
  LET pos_cnt == positive_timeline_count(P)
      neg_cnt == negative_timeline_count(P)
  IN IF pos_cnt = neg_cnt \/ pos_cnt = neg_cnt - 1
     THEN [P EXCEPT !.activePositiveLines = @ + 1,
                    !.timeOfPresent = Min(@, start_time(newTimeline)),
                    !.positiveLines = Append(@, activate(newTimeline))]
     ELSE IF pos_cnt < neg_cnt - 1
     THEN [P EXCEPT !.activePositiveLines = @ + 1,
                    !.negativeLines[(pos_cnt + 1) + 1] = activate(@),
                    !.activeNegativeLines = @ + 1,
                    !.timeOfPresent =
                       Min(@, Min(start_time(newTimeline),
                                  start_time(P.negativeLines[(pos_cnt + 1) + 1]))),
                    !.positiveLines = Append(@, activate(newTimeline))]
     ELSE [P EXCEPT !.positiveLines = Append(@, newTimeline)]

\* the present is set to the start of the new branch, without the minimum
BlackBranch_nomin(P, newTimeline) ==
  LET pos_cnt == positive_timeline_count(P)
      neg_cnt == negative_timeline_count(P)
  IN IF neg_cnt = pos_cnt \/ neg_cnt = pos_cnt - 1
     THEN [P EXCEPT !.activeNegativeLines = @ + 1,
                    !.timeOfPresent = start_time(newTimeline),
                    !.negativeLines = Append(@, activate(newTimeline))]
     ELSE IF neg_cnt < pos_cnt - 1
     THEN [P EXCEPT !.activeNegativeLines = @ + 1,
                    !.positiveLines[(neg_cnt + 2) + 1] = activate(@),
                    !.timeOfPresent =
                       Min(@, Min(start_time(newTimeline),
                                  start_time(P.positiveLines[(neg_cnt + 2) + 1]))),
                    !.negativeLines = Append(@, activate(newTimeline))]
     ELSE [P EXCEPT !.negativeLines = Append(@, newTimeline)]

BlackBranch(P, newTimeline) ==
  LET pos_cnt == positive_timeline_count(P)
      neg_cnt == negative_timeline_count(P)
  IN IF neg_cnt = pos_cnt \/ neg_cnt = pos_cnt - 1
     THEN [P EXCEPT !.activeNegativeLines = @ + 1,
                    !.timeOfPresent = Min(@, start_time(newTimeline)),
                    !.negativeLines = Append(@, activate(newTimeline))]
     ELSE IF neg_cnt < pos_cnt - 1
     THEN [P EXCEPT !.activeNegativeLines = @ + 1,
                    !.positiveLines[(neg_cnt + 2) + 1] = activate(@),
                    !.timeOfPresent =
                       Min(@, Min(start_time(newTimeline),
                                  start_time(P.positiveLines[(neg_cnt + 2) + 1]))),
                    !.negativeLines = Append(@, activate(newTimeline))]
     ELSE [P EXCEPT !.negativeLines = Append(@, newTimeline)]

\* the state of the Position when the failing assert ends the program
BranchAborted(P) ==
  IF P.sideToMove = WHITE
  THEN [P EXCEPT !.activePositiveLines = @ + 1]
  ELSE [P EXCEPT !.activeNegativeLines = @ + 1]

\* the call passes the turn of the Position
branch_from_passturn(P, h, targetBoard, branchTime) ==
  LET c == CopyBoard(h, targetBoard)
      h1 == [c.heap EXCEPT ![c.id] = passTurn(@)]
      newTimeline == BranchTimeline(P, h1, c.id, branchTime)
      P1 == IF P.sideToMove = WHITE THEN WhiteBranch(P, newTimeline)
            ELSE BlackBranch(P, newTimeline)
  IN [heap |-> h1, id |-> c.id, src |-> targetBoard,
      pos |-> [P1 EXCEPT !.sideToMove = other_color(@)]]

\* the new timeline goes to the collection of the other side
branch_from_otherside(P, h, targetBoard, branchTime) ==
  LET c == CopyBoard(h, targetBoard)
      h1 == [c.heap EXCEPT ![c.id] = passTurn(@)]
      newTimeline == BranchTimeline(P, h1, c.id, branchTime)
  IN [heap |-> h1, id |-> c.id, src |-> targetBoard,
      pos |-> IF P.sideToMove = WHITE
              THEN [P EXCEPT !.negativeLines = Append(@, newTimeline)]
              ELSE [P EXCEPT !.positiveLines = Append(@, newTimeline)]]

\* Position::new_timeline from the copy of targetBoard on
branch_from(P, h, targetBoard, branchTime) ==
  LET c == CopyBoard(h, targetBoard)
      h1 == [c.heap EXCEPT ![c.id] = passTurn(@)]
      newTimeline == BranchTimeline(P, h1, c.id, branchTime)
  IN [heap |-> h1, id |-> c.id, src |-> targetBoard,
      pos |-> IF P.sideToMove = WHITE THEN WhiteBranch(P, newTimeline)
              ELSE BlackBranch(P, newTimeline)]

\* Position::new_timeline on a position P with boards h
new_timeline(P, h, branchLine, branchTime) ==
  LET targetLine == timeline(P, branchLine)
      targetBoard == board_on_turn(targetLine, branchTime, P.sideToMove)
  IN branch_from(P, h, targetBoard, branchTime)

(***************************************************************************)
(* The calls.                                                              *)
(***************************************************************************)
NoCall == [op |-> "none", line |-> 0, time |-> 0, mover |-> WHITE,
           own |-> 0, opp |-> 0, src |-> 0, pc |-> NO_PIECE, sq |-> 0,
           color |-> WHITE, has |-> FALSE, board |-> 0]

FenLists(lo, hi) == UNION {[1..n -> FenPool] : n \in lo..hi}

\* the (line, time) pairs whose ply is a board of that line, for the mover
Branchable(P) ==
  {lt \in LineIds(P) \X (1..(MaxPlies + 1)) :
     LET idx == plyToBoardIdx(timeline(P, lt[1]), lt[2], P.sideToMove)
     IN idx >= 0 /\ idx < Len(timeline(P, lt[1]).boards)}

\* the count of timelines on the mover's side and on the other side
OwnCount(P) ==
  IF P.sideToMove = WHITE THEN positive_timeline_count(P)
  ELSE negative_timeline_count(P)

OppCount(P) ==
  IF P.sideToMove = WHITE THEN negative_timeline_count(P)
  ELSE positive_timeline_count(P)

\* the program has not been ended by a failing assert or by a crash
Running == status \notin {"aborted", "crashed"}

\* the record of the call new_timeline(branchLine, branchTime)
BranchCall(branchLine, branchTime, src) ==
  [NoCall EXCEPT !.line = branchLine, !.time = branchTime,
                 !.mover = sideToMove, !.own = OwnCount(Pos),
                 !.opp = OppCount(Pos), !.src = src]

\* new_timeline from the copy on, with result r.  A failing assert ends the
\* program, unless the build has NDEBUG: then it is skipped, in this call
\* and in every later one.
BranchOutcome(r, call) ==
  /\ heap' = r.heap
  /\ \/ /\ status' = IF BranchAssert(Pos) THEN status ELSE "unchecked"
        /\ negativeLines' = r.pos.negativeLines
        /\ positiveLines' = r.pos.positiveLines
        /\ activePositiveLines' = r.pos.activePositiveLines
        /\ activeNegativeLines' = r.pos.activeNegativeLines
        /\ timeOfPresent' = r.pos.timeOfPresent
        /\ sideToMove' = r.pos.sideToMove
        /\ ret' = r.id
        /\ last' = [call EXCEPT !.op = "new_timeline"]
     \/ /\ ~BranchAssert(Pos)
        /\ status = "running"
        /\ status' = "aborted"
        /\ activePositiveLines' = BranchAborted(Pos).activePositiveLines
        /\ activeNegativeLines' = BranchAborted(Pos).activeNegativeLines
        /\ ret' = 0
        /\ last' = [call EXCEPT !.op = "assert"]
        /\ UNCHANGED <<negativeLines, positiveLines, timeOfPresent, sideToMove>>

\* Board2D& b = pos.new_timeline(branchLine, branchTime), the arguments
\* naming a ply of a timeline
NewTimeline(branchLine, branchTime) ==
  /\ Running
  /\ Len(positiveLines) >= 1
  /\ <<branchLine, branchTime>> \in Branchable(Pos)
  /\ Len(heap) < MaxBoards
  /\ OwnCount(Pos) < MaxLines
  /\ LET r == new_timeline(Pos, heap, branchLine, branchTime)
     IN BranchOutcome(r, BranchCall(branchLine, branchTime, r.src))
  /\ UNCHANGED <<negativeFENs, positiveFENs, edits>>

\* pos.new_timeline(branchLine, branchTime), the arguments naming no
\* timeline or no ply of it: positiveLines[..], negativeLines[..] and
\* boards[..] are not checked, the behaviour is undefined; the program ends,
\* or goes on with targetBoard referring to some board
NewTimelineNoSource(branchLine, branchTime) ==
  /\ Running
  /\ Len(positiveLines) >= 1
  /\ <<branchLine, branchTime>> \notin Branchable(Pos)
  /\ Len(heap) < MaxBoards
  /\ OwnCount(Pos) < MaxLines
  /\ \/ \E targetBoard \in 1..Len(heap) :
          LET r == branch_from(Pos, heap, targetBoard, branchTime)
          IN BranchOutcome(r, BranchCall(branchLine, branchTime, r.src))
     \/ /\ status' = "crashed"
        /\ ret' = 0
        /\ last' = [BranchCall(branchLine, branchTime, 0) EXCEPT !.op = "new_timeline"]
        /\ UNCHANGED <<heap, negativeLines, positiveLines, activePositiveLines,
                       activeNegativeLines, timeOfPresent, sideToMove>>
  /\ UNCHANGED <<negativeFENs, positiveFENs, edits>>

\* Board2D& board = pos.timeline(l).board_on_turn(t, c) for the first ply of
\* line l; ((Timeline&)pos.timeline(l)).append_board(*(new Board2D(board)))
\* (test.cpp:15-17)
AppendBoard(l) ==
  /\ Running
  /\ l \in LineIds(Pos)
  /\ Len(timeline(Pos, l).boards) < MaxPlies
  /\ Len(heap) < MaxBoards
  /\ LET tl == timeline(Pos, l)
         board == board_on_turn(tl, tl.startTime, tl.startColor)
         c == CopyBoard(heap, board)
     IN /\ heap' = c.heap
        /\ IF l >= 0
           THEN /\ positiveLines' =
                     [positiveLines EXCEPT ![l + 1] = append_board(@, c.id)]
                /\ UNCHANGED negativeLines
           ELSE /\ negativeLines' =
                     [negativeLines EXCEPT ![(-l - 1) + 1] = append_board(@, c.id)]
                /\ UNCHANGED positiveLines
        /\ last' = [NoCall EXCEPT !.op = "append_board", !.line = l, !.src = board]
  /\ UNCHANGED <<activePositiveLines, activeNegativeLines, timeOfPresent,
                 sideToMove, status, negativeFENs, positiveFENs, ret, edits>>

\* the players' turn order: the other side becomes the side to move
PassTurn ==
  /\ Running
  /\ Len(positiveLines) >= 1
  /\ sideToMove' = other_color(sideToMove)
  /\ last' = [NoCall EXCEPT !.op = "pass_turn"]
  /\ UNCHANGED <<heap, negativeLines, positiveLines, activePositiveLines,
                 activeNegativeLines, timeOfPresent, status,
                 negativeFENs, positiveFENs, ret, edits>>

\* s is a square of the boardWidth x boardWidth board b
OnBoardSquare(b, s) == file_of(s) < b.boardWidth /\ rank_of(s) < b.boardWidth

\* the pieces on board b
OnBoard(b) == Cardinality({s \in Squares : ~empty(b, s)})

\* b.put_piece(pc, s) on the board the caller holds, s empty
PutPiece(pc, s) ==
  /\ Running
  /\ ret # 0
  /\ edits < MaxEdits
  /\ OnBoardSquare(heap[ret], s)
  /\ empty(heap[ret], s)
  /\ OnBoard(heap[ret]) < MaxOnBoard
  /\ heap' = [heap EXCEPT ![ret] = put_piece(@, pc, s)]
  /\ edits' = edits + 1
  /\ last' = [NoCall EXCEPT !.op = "put_piece", !.pc = pc, !.sq = s]
  /\ UNCHANGED <<posVars, status, negativeFENs, positiveFENs, ret>>

\* b.remove_piece(s) on the board the caller holds, s occupied
RemovePiece(s) ==
  /\ Running
  /\ ret # 0
  /\ edits < MaxEdits
  /\ ~empty(heap[ret], s)
  /\ heap' = [heap EXCEPT ![ret] = remove_piece(@, s)]
  /\ edits' = edits + 1
  /\ last' = [NoCall EXCEPT !.op = "remove_piece", !.pc = heap[ret].board[s], !.sq = s]
  /\ UNCHANGED <<posVars, status, negativeFENs, positiveFENs, ret>>

\* b.put_piece(pc, s) on the board the caller holds, s occupied: the code
\* has no check and runs as on an empty square
PutPieceOccupied(pc, s) ==
  /\ Running
  /\ ret # 0
  /\ edits < MaxEdits
  /\ OnBoardSquare(heap[ret], s)
  /\ ~empty(heap[ret], s)
  /\ heap' = [heap EXCEPT ![ret] = put_piece(@, pc, s)]
  /\ edits' = edits + 1
  /\ last' = [NoCall EXCEPT !.op = "put_piece", !.pc = pc, !.sq = s]
  /\ UNCHANGED <<posVars, status, negativeFENs, positiveFENs, ret>>

\* what remove_piece leaves of board b when s is empty and the program goes
\* on: pc is NO_PIECE, whose pieceCount entry is also the entry of WHITE's
\* ALL_PIECES and is decremented twice; pieceList[NO_PIECE] holds SQ_NONE
\* only, so index[SQ_NONE] is written, one past the array, where the member
\* sideToMove follows
RemoveEmptyOutcomes(b, s) ==
  {[b EXCEPT !.pieceCount[NO_PIECE] = @ - 2, !.sideToMove = c] : c \in Color}

\* b.remove_piece(s) on the board the caller holds, s empty: the code has
\* no check; it reads pieceList[NO_PIECE][-1] or writes index[SQ_NONE], the
\* behaviour is undefined, the program ends or goes on
RemovePieceEmpty(s) ==
  /\ Running
  /\ ret # 0
  /\ edits < MaxEdits
  /\ OnBoardSquare(heap[ret], s)
  /\ empty(heap[ret], s)
  /\ \/ /\ \E b \in RemoveEmptyOutcomes(heap[ret], s) :
              heap' = [heap EXCEPT ![ret] = b]
        /\ UNCHANGED status
     \/ /\ status' = "crashed"
        /\ UNCHANGED heap
  /\ edits' = edits + 1
  /\ last' = [NoCall EXCEPT !.op = "remove_piece", !.pc = NO_PIECE, !.sq = s]
  /\ UNCHANGED <<posVars, negativeFENs, positiveFENs, ret>>

(***************************************************************************)
(* Queries of a Timeline through pos.timeline(l).                          *)
(***************************************************************************)
\* what a reference is when it refers to no Board2D of the Position
GARBAGE == -1

\* std::vector::operator[] with index i has no element to refer to
OutOfRange(v, i) == i < 0 \/ i >= Len(v)

\* bool h = pos.timeline(l).has_board_on_turn(t, c)
HasBoardOnTurn(l, t, c) ==
  /\ Running
  /\ l \in LineIds(Pos)
  /\ last' = [NoCall EXCEPT !.op = "has_board_on_turn", !.line = l, !.time = t,
                            !.color = c,
                            !.has = has_board_on_turn(timeline(Pos, l), t, c)]
  /\ UNCHANGED <<heap, posVars, status, negativeFENs, positiveFENs, ret, edits>>

\* pos.timeline(l).board_on_turn(t, c), the caller looks at the reference
\* and drops it.  boards[idx] is not checked: outside the vector the
\* behaviour is undefined, the program ends or goes on with a reference to
\* some board or to no board at all.
BoardOnTurn(l, t, c) ==
  /\ Running
  /\ l \in LineIds(Pos)
  /\ LET tl == timeline(Pos, l)
         call == [NoCall EXCEPT !.op = "board_on_turn", !.line = l, !.time = t,
                                !.color = c]
     IN IF ~OutOfRange(tl.boards, plyToBoardIdx(tl, t, c))
        THEN /\ last' = [call EXCEPT !.board = board_on_turn(tl, t, c)]
             /\ UNCHANGED status
        ELSE \/ /\ \E b \in (1..Len(heap)) \cup {GARBAGE} :
                     last' = [call EXCEPT !.board = b]
                /\ UNCHANGED status
             \/ /\ last' = call
                /\ status' = "crashed"
  /\ UNCHANGED <<heap, posVars, negativeFENs, positiveFENs, ret, edits>>

(***************************************************************************)
(* Spec: a Position after pos.set(negFENs, posFENs) (test.cpp:7-8), under  *)
(* branching, appended plies and passing turns.                            *)
(***************************************************************************)
InitSet(negFENs, posFENs) ==
  /\ LET r == PositionSet(negFENs, posFENs)
     IN /\ heap = r.heap
        /\ negativeLines = r.pos.negativeLines
        /\ positiveLines = r.pos.positiveLines
        /\ activePositiveLines = r.pos.activePositiveLines
        /\ activeNegativeLines = r.pos.activeNegativeLines
        /\ timeOfPresent = r.pos.timeOfPresent
        /\ sideToMove = r.pos.sideToMove
  /\ negativeFENs = negFENs
  /\ positiveFENs = posFENs
  /\ status = "running"
  /\ ret = 0
  /\ edits = 0
  /\ last = [NoCall EXCEPT !.op = "set"]

Init ==
  \E negFENs \in FenLists(0, MaxInitSide), posFENs \in FenLists(1, MaxInitSide + 1) :
    InitSet(negFENs, posFENs)

NewTimelineStep ==
  \E l \in (-MaxLines)..MaxLines, t \in 1..(MaxPlies + 1) : NewTimeline(l, t)

AppendBoardStep == \E l \in (-MaxLines)..MaxLines : AppendBoard(l)

PutPieceStep == \E pc \in Pieces, s \in Squares : PutPiece(pc, s)

RemovePieceStep == \E s \in Squares : RemovePiece(s)

Next == NewTimelineStep \/ AppendBoardStep \/ PassTurn

Spec == Init /\ [][Next]_vars

(***************************************************************************)
(* SpecCopy: the program of test.cpp: one central line with appended       *)
(* copies of its first board, branches, and piece edits on the board a     *)
(* branch returned.                                                        *)
(***************************************************************************)
RECURSIVE AppendCopies(_, _, _)
\* k times: append to line a copy of its first board (test.cpp:15-17)
AppendCopies(h, line, k) ==
  IF k = 0 THEN [heap |-> h, line |-> line]
  ELSE LET c == CopyBoard(h, first_board(line))
       IN AppendCopies(c.heap, append_board(line, c.id), k - 1)

InitCopy ==
  \E posFENs \in FenLists(1, 1), k \in 0..(MaxPlies - 1) :
       LET r == PositionSet(<<>>, posFENs)
           a == AppendCopies(r.heap, r.pos.positiveLines[1], k)
       IN /\ heap = a.heap
          /\ negativeLines = r.pos.negativeLines
          /\ positiveLines = <<a.line>>
          /\ activePositiveLines = r.pos.activePositiveLines
          /\ activeNegativeLines = r.pos.activeNegativeLines
          /\ timeOfPresent = r.pos.timeOfPresent
          /\ sideToMove = r.pos.sideToMove
          /\ negativeFENs = <<>>
          /\ positiveFENs = posFENs
          /\ status = "running"
          /\ ret = 0
          /\ edits = 0
          /\ last = [NoCall EXCEPT !.op = "append_board"]

NextCopy == NewTimelineStep \/ PutPieceStep \/ RemovePieceStep

SpecCopy == InitCopy /\ [][NextCopy]_vars

(***************************************************************************)
(* SpecBoard: one Board2D read from a FEN, under put_piece / remove_piece. *)
(***************************************************************************)
InitBoard ==
  /\ \E fenStr \in BoardFenPool : heap = <<Board2DSet(fenStr)>>
  /\ negativeLines = <<>>
  /\ positiveLines = <<>>
  /\ activePositiveLines = 0
  /\ activeNegativeLines = 0
  /\ timeOfPresent = 0
  /\ sideToMove = WHITE
  /\ status = "running"
  /\ negativeFENs = <<>>
  /\ positiveFENs = <<>>
  /\ ret = 1
  /\ edits = 0
  /\ last = [NoCall EXCEPT !.op = "board_set"]

NextBoard == PutPieceStep \/ RemovePieceStep

SpecBoard == InitBoard /\ [][NextBoard]_vars

(***************************************************************************)
(* SpecMisuse: one Board2D read from a FEN, under put_piece / remove_piece *)
(* on any square of the board, occupied or empty.                          *)
(***************************************************************************)
PutPieceOccupiedStep == \E pc \in Pieces, s \in Squares : PutPieceOccupied(pc, s)

RemovePieceEmptyStep == \E s \in Squares : RemovePieceEmpty(s)

NextMisuse ==
  PutPieceStep \/ RemovePieceStep \/ PutPieceOccupiedStep \/ RemovePieceEmptyStep

SpecMisuse == InitBoard /\ [][NextMisuse]_vars

(***************************************************************************)
(* SpecAccess: a Position with a central line of up to MaxPlies + 1 plies, *)
(* at most one loaded negative line and at most one branch, under appended *)
(* plies and the ply queries of its timelines.                             *)
(***************************************************************************)
\* the Position and boards after n calls of new_timeline(0, 1)
RECURSIVE Branches(_, _, _)
Branches(P, h, n) ==
  IF n = 0 THEN [heap |-> h, pos |-> P]
  ELSE LET r == new_timeline(P, h, 0, 1) IN Branches(r.pos, r.heap, n - 1)

InitAccess ==
  \E negFENs \in FenLists(0, 1), posFENs \in FenLists(1, 1),
     k \in 0..MaxPlies, n \in 0..1 :
       LET r == PositionSet(negFENs, posFENs)
           a == AppendCopies(r.heap, r.pos.positiveLines[1], k)
           b == Branches([r.pos EXCEPT !.positiveLines = <<a.line>>], a.heap, n)
       IN /\ heap = b.heap
          /\ negativeLines = b.pos.negativeLines
          /\ positiveLines = b.pos.positiveLines
          /\ activePositiveLines = b.pos.activePositiveLines
          /\ activeNegativeLines = b.pos.activeNegativeLines
          /\ timeOfPresent = b.pos.timeOfPresent
          /\ sideToMove = b.pos.sideToMove
          /\ negativeFENs = negFENs
          /\ positiveFENs = posFENs
          /\ status = "running"
          /\ ret = 0
          /\ edits = 0
          /\ last = [NoCall EXCEPT !.op = "append_board"]

HasBoardOnTurnStep ==
  \E l \in (-MaxLines)..MaxLines, t \in 1..(MaxPlies + 1), c \in Color :
     HasBoardOnTurn(l, t, c)

BoardOnTurnStep ==
  \E l \in (-MaxLines)..MaxLines, t \in 1..(MaxPlies + 1), c \in Color :
     BoardOnTurn(l, t, c)

\* a ply is appended to the central line only
AppendCentralStep == AppendBoard(0)

NextAccess == AppendCentralStep \/ HasBoardOnTurnStep \/ BoardOnTurnStep

SpecAccess == InitAccess /\ [][NextAccess]_vars

(***************************************************************************)
(* SpecBranch: one central line with appended copies of its first board,   *)
(* under new_timeline with any arguments.                                  *)
(***************************************************************************)
NewTimelineNoSourceStep ==
  \E l \in (-MaxLines)..MaxLines, t \in 1..(MaxPlies + 1) : NewTimelineNoSource(l, t)

NextBranch == NewTimelineStep \/ NewTimelineNoSourceStep

SpecBranch == InitCopy /\ [][NextBranch]_vars

(***************************************************************************)
(* Vocabulary of the properties.                                           *)
(***************************************************************************)
Abs(x) == IF x < 0 THEN -x ELSE x

\* the non-central positive / the negative timelines whose active flag is set
ActivePositive == Cardinality({i \in 2..Len(positiveLines) : positiveLines[i].active})

ActiveNegative == Cardinality({i \in 1..Len(negativeLines) : negativeLines[i].active})

\* the input of the latest set satisfied the balance rule
BalancedInput == Abs((Len(positiveFENs) - 1) - Len(negativeFENs)) <= 1

\* this step is a completed call of new_timeline
BranchStep == last'.op = "new_timeline" /\ Len(heap') = Len(heap) + 1

\* the timeline that step appended, and the counters by side of the mover
NewLine ==
  IF sideToMove = WHITE THEN positiveLines'[Len(positiveLines')]
  ELSE negativeLines'[Len(negativeLines')]

OwnActive == IF sideToMove = WHITE THEN activePositiveLines ELSE activeNegativeLines

OppActive == IF sideToMove = WHITE THEN activeNegativeLines ELSE activePositiveLines

\* the step appended exactly one timeline, on the mover's side
AppendedOnMoverSide ==
  IF sideToMove = WHITE
  THEN Len(positiveLines') = Len(positiveLines) + 1 /\ Len(negativeLines') = Len(negativeLines)
  ELSE Len(negativeLines') = Len(negativeLines) + 1 /\ Len(positiveLines') = Len(positiveLines)

\* every timeline that existed before the step keeps its active flag
FlagsKept ==
  /\ \A i \in 1..Len(positiveLines) : positiveLines'[i].active = positiveLines[i].active
  /\ \A i \in 1..Len(negativeLines) : negativeLines'[i].active = negativeLines[i].active

(***************************************************************************)
(* C1. Balance invariant: from a balanced input of set, after every call   *)
(* of new_timeline (either mover, the mover changing at any time), the     *)
(* active counters differ by at most 1.                                    *)
(***************************************************************************)
C1_Balance ==
  (Running /\ BalancedInput) =>
     Abs(activePositiveLines - activeNegativeLines) <= 1

(***************************************************************************)
(* C2. Counter consistency: activePositiveLines is the number of active    *)
(* positive timelines in slots 1.., activeNegativeLines the number of      *)
(* active negative timelines.                                              *)
(***************************************************************************)
C2_CountersMatchFlags ==
  Running =>
     /\ activePositiveLines = ActivePositive
     /\ activeNegativeLines = ActiveNegative

(***************************************************************************)
(* C3. Forced secondary activation: a call with ownCount < oppCount - 1    *)
(* appends an active branch and raises both active counters by exactly 1,  *)
(* for a White and for a Black mover.                                      *)
(***************************************************************************)
C3_SecondaryStep ==
  (BranchStep /\ OwnCount(Pos) < OppCount(Pos) - 1) =>
     /\ NewLine.active
     /\ OwnActive' = OwnActive + 1
     /\ OppActive' = OppActive + 1

C3_Secondary == [][C3_SecondaryStep]_vars

\* the timeline appended by the latest call, in a state right after it
LastLine ==
  IF last.mover = WHITE THEN positiveLines[Len(positiveLines)]
  ELSE negativeLines[Len(negativeLines)]

\* the squares listed in the first count entries of piece pc's list
Locations(b, pc) == {b.pieceList[pc][i] : i \in 0..(b.pieceCount[pc] - 1)}

(***************************************************************************)
(* C4. Plain activation: a call with ownCount = oppCount or                *)
(* ownCount = oppCount - 1 appends an active branch, raises the mover's    *)
(* active counter by 1, keeps the other counter and every earlier          *)
(* timeline's flag, and sets timeOfPresent to the minimum of its old value *)
(* and the branch's start time; a White branch of line 0 at time 1 from a  *)
(* central-only Position gives counters 1 and 0 and present 1.             *)
(***************************************************************************)
C4_PlainStep ==
  /\ (BranchStep /\ (OwnCount(Pos) = OppCount(Pos) \/ OwnCount(Pos) = OppCount(Pos) - 1)) =>
        /\ AppendedOnMoverSide
        /\ NewLine.active
        /\ OwnActive' = OwnActive + 1
        /\ OppActive' = OppActive
        /\ FlagsKept
        /\ timeOfPresent' = Min(timeOfPresent, NewLine.startTime)
  /\ (/\ BranchStep
      /\ sideToMove = WHITE
      /\ Len(positiveLines) = 1 /\ Len(negativeLines) = 0
      /\ activePositiveLines = 0 /\ activeNegativeLines = 0
      /\ last'.line = 0 /\ last'.time = 1) =>
        /\ activePositiveLines' = 1
        /\ activeNegativeLines' = 0
        /\ timeOfPresent' = 1

C4_Plain == [][C4_PlainStep]_vars

\* a Black branch was activated alone; it starts after the present
C4_Witness ==
  /\ last.op = "new_timeline"
  /\ last.mover = BLACK
  /\ last.own = last.opp - 1
  /\ LastLine.active
  /\ LastLine.startTime > timeOfPresent

(***************************************************************************)
(* C5. Surplus side stays inactive: a call with ownCount > oppCount - 1    *)
(* and ownCount # oppCount appends an inactive timeline on the mover's     *)
(* side and changes no counter, no earlier flag and not timeOfPresent.     *)
(***************************************************************************)
C5_SurplusStep ==
  (BranchStep /\ OwnCount(Pos) > OppCount(Pos) - 1 /\ OwnCount(Pos) # OppCount(Pos)) =>
     /\ AppendedOnMoverSide
     /\ ~NewLine.active
     /\ activePositiveLines' = activePositiveLines
     /\ activeNegativeLines' = activeNegativeLines
     /\ timeOfPresent' = timeOfPresent
     /\ FlagsKept

C5_Surplus == [][C5_SurplusStep]_vars

\* a White branch was appended inactive to the side that had the surplus
C5_Witness ==
  /\ last.op = "new_timeline"
  /\ last.mover = WHITE
  /\ last.own > last.opp
  /\ ~LastLine.active
  /\ Len(positiveLines) - 1 = last.own + 1

(***************************************************************************)
(* C6. Start coordinate of a branch, as claimed: startTime is atTime for a *)
(* White mover and atTime + 1 for a Black mover, startColor is the         *)
(* opposite of the mover, and the first board's side to move is startColor.*)
(***************************************************************************)
C6_StartOfMoverStep ==
  BranchStep =>
     /\ NewLine.startTime = last'.time + (IF sideToMove = WHITE THEN 0 ELSE 1)
     /\ NewLine.startColor = other_color(sideToMove)
     /\ heap'[NewLine.boards[1]].sideToMove = NewLine.startColor

C6_StartOfMover == [][C6_StartOfMoverStep]_vars

(***************************************************************************)
(* C6, amended. startTime is atTime for a White mover and atTime + 1 for a *)
(* Black mover; startColor is the opposite of the source board's side to   *)
(* move and is the first board's side to move; it is the opposite of the   *)
(* mover whenever the source board's side to move is the mover.            *)
(***************************************************************************)
C6_StartOfSourceStep ==
  BranchStep =>
     /\ NewLine.startTime = last'.time + (IF sideToMove = WHITE THEN 0 ELSE 1)
     /\ NewLine.startColor = other_color(heap[last'.src].sideToMove)
     /\ heap'[NewLine.boards[1]].sideToMove = NewLine.startColor
     /\ heap[last'.src].sideToMove = sideToMove =>
           NewLine.startColor = other_color(sideToMove)

C6_StartOfSource == [][C6_StartOfSourceStep]_vars

\* a Black mover branched from a board whose side to move was Black
C6_Witness ==
  /\ last.op = "new_timeline"
  /\ last.mover = BLACK
  /\ LastLine.startTime = last.time + 1
  /\ LastLine.startColor = WHITE
  /\ heap[last.src].sideToMove = BLACK

(***************************************************************************)
(* C7. Board returned by a branch: it is the one board of the appended     *)
(* timeline, has the source board's piece on every square, its width and   *)
(* its per-piece location sets, and the opposite side to move.             *)
(***************************************************************************)
C7_ReturnedBoard ==
  last.op = "new_timeline" =>
     /\ LastLine.boards = <<ret>>
     /\ \A s \in Squares : piece_on(heap[ret], s) = piece_on(heap[last.src], s)
     /\ heap[ret].boardWidth = heap[last.src].boardWidth
     /\ \A pc \in Pieces : Locations(heap[ret], pc) = Locations(heap[last.src], pc)
     /\ heap[ret].sideToMove = other_color(heap[last.src].sideToMove)

\* a branch returned the copy of a board that holds pieces
C7_Witness ==
  /\ last.op = "new_timeline"
  /\ ret # 0
  /\ ret # last.src
  /\ \E s \in Squares : piece_on(heap[ret], s) = W_KNIGHT
  /\ heap[last.src].sideToMove = WHITE
  /\ heap[ret].sideToMove = BLACK

(***************************************************************************)
(* C8. Copy independence: a put_piece or remove_piece on the board a       *)
(* branch returned changes no other board: no other ply slot of any        *)
(* timeline refers to that board, and every other board keeps its squares, *)
(* location lists, reverse index and side to move.                         *)
(***************************************************************************)
EditStep == last'.op \in {"put_piece", "remove_piece"} /\ heap' # heap

\* the ply slots <<line, ply>> of all timelines, line as in Position::timeline
PlySlots ==
  {<<l, k>> \in LineIds(Pos) \X (1..MaxBoards) : k <= Len(timeline(Pos, l).boards)}

\* the slot of the first board of the newest timeline on the mover's side
NewestSlot ==
  IF sideToMove = WHITE THEN <<positive_timeline_count(Pos), 1>>
  ELSE <<-(negative_timeline_count(Pos)), 1>>

C8_CopyStep ==
  EditStep =>
     /\ timeline(Pos, NewestSlot[1]).boards[1] = ret
     /\ \A sl \in PlySlots \ {NewestSlot} :
           /\ timeline(Pos, sl[1]).boards[sl[2]] # ret
           /\ heap'[timeline(Pos, sl[1]).boards[sl[2]]] = heap[timeline(Pos, sl[1]).boards[sl[2]]]
     /\ \A id \in 1..Len(heap) : id # ret => heap'[id] = heap[id]
     /\ UNCHANGED posVars

C8_CopyIndependent == [][C8_CopyStep]_vars

\* the returned board was edited and now differs from the central first board
C8_Witness ==
  /\ last.op = "remove_piece"
  /\ edits >= 2
  /\ Len(positiveLines) >= 1
  /\ heap[ret].board # heap[first_board(positiveLines[1])].board

(***************************************************************************)
(* C9. Initialization postcondition: after set with a non-empty positive   *)
(* list every supplied timeline is active, starts at time 1 with its       *)
(* board's side to move and holds one board; the counters are              *)
(* count(positiveFENs) - 1 and count(negativeFENs), timeOfPresent is 1 and *)
(* sideToMove is the central board's; unbalanced input is taken as is.     *)
(***************************************************************************)
LoadedLine(tl) ==
  /\ tl.active
  /\ tl.startTime = 1
  /\ Len(tl.boards) = 1
  /\ tl.startColor = heap[tl.boards[1]].sideToMove

\* the side a FEN names after its first space
FenSide(fenStr) == IF fenStr[Len(fenStr)] = "w" THEN WHITE ELSE BLACK

C9_SetPost ==
  (last.op = "set" /\ Len(positiveFENs) >= 1) =>
     /\ status = "running"
     /\ Len(positiveLines) = Len(positiveFENs)
     /\ Len(negativeLines) = Len(negativeFENs)
     /\ \A i \in 1..Len(positiveLines) : LoadedLine(positiveLines[i])
     /\ \A i \in 1..Len(negativeLines) : LoadedLine(negativeLines[i])
     /\ activePositiveLines = Len(positiveFENs) - 1
     /\ activeNegativeLines = Len(negativeFENs)
     /\ timeOfPresent = 1
     /\ sideToMove = heap[positiveLines[1].boards[1]].sideToMove
     /\ sideToMove = FenSide(positiveFENs[1])

\* set has loaded an unbalanced input: two negative lines, the central one
C9_Witness ==
  /\ last.op = "set"
  /\ Len(negativeFENs) = 2
  /\ Len(positiveFENs) = 1
  /\ activeNegativeLines = 2
  /\ activePositiveLines = 0
  /\ sideToMove = BLACK

(***************************************************************************)
(* C10. Piece bookkeeping: after every put_piece on an empty square and    *)
(* remove_piece on an occupied square, a square holds piece p exactly if   *)
(* it is among the first count(p) entries of p's list, and no square is    *)
(* listed twice.                                                           *)
(***************************************************************************)
BookkeepingOk(b) ==
  \A pc \in Pieces :
     /\ b.pieceCount[pc] >= 0
     /\ \A sq \in Squares : piece_on(b, sq) = pc <=> sq \in Locations(b, pc)
     /\ \A i, j \in 0..(b.pieceCount[pc] - 1) :
           i # j => b.pieceList[pc][i] # b.pieceList[pc][j]

C10_Bookkeeping == \A id \in 1..Len(heap) : BookkeepingOk(heap[id])

\* a removal has moved the last entry of the list into the vacated slot
C10_Witness ==
  /\ last.op = "remove_piece"
  /\ heap[ret].pieceCount[last.pc] >= 1
  /\ heap[ret].pieceList[last.pc][heap[ret].index[last.sq]] \in Squares \ {last.sq}

\* the ply index of (time, c) in timeline tl, by the documented formula
PlyIndex(tl, time, c) == 2 * (time - tl.startTime) + (c - tl.startColor)

(***************************************************************************)
(* C11. has_board_on_turn reports existence: it is false whenever the ply  *)
(* index 2*(time-startTime) + (color-startColor) is negative, and true     *)
(* whenever the ply index is the index of a board held by the timeline.    *)
(***************************************************************************)
C11_HasBoard ==
  last.op = "has_board_on_turn" =>
     LET tl == timeline(Pos, last.line)
         idx == PlyIndex(tl, last.time, last.color)
     IN /\ idx < 0 => ~last.has
        /\ (idx >= 0 /\ idx < Len(tl.boards)) => last.has

(***************************************************************************)
(* C12. Ply addressing: for (time, color) in range board_on_turn returns   *)
(* the board at position 2*(time-startTime) + (color-startColor) in append *)
(* order; with startTime 1 and startColor White the pairs (1,White),       *)
(* (1,Black), (2,White) address plies 0, 1, 2; each append_board makes     *)
(* exactly one more ply index valid, the old length, and keeps the others. *)
(***************************************************************************)
\* the ply indices of timeline tl that hold a board
ValidPlies(tl) == 0..(Len(tl.boards) - 1)

C12_AddressStep ==
  /\ last'.op = "board_on_turn" =>
        LET tl == timeline(Pos, last'.line)
            idx == PlyIndex(tl, last'.time, last'.color)
        IN /\ idx \in ValidPlies(tl) =>
                 (status' = status /\ last'.board = tl.boards[idx + 1])
           /\ (tl.startTime = 1 /\ tl.startColor = WHITE /\ Len(tl.boards) >= 3) =>
                 /\ (last'.time = 1 /\ last'.color = WHITE) => last'.board = tl.boards[1]
                 /\ (last'.time = 1 /\ last'.color = BLACK) => last'.board = tl.boards[2]
                 /\ (last'.time = 2 /\ last'.color = WHITE) => last'.board = tl.boards[3]
  /\ last'.op = "append_board" =>
        LET old == timeline(Pos, last'.line)
            new == IF last'.line >= 0 THEN positiveLines'[last'.line + 1]
                   ELSE negativeLines'[-last'.line]
        IN /\ ValidPlies(new) = ValidPlies(old) \cup {Len(old.boards)}
           /\ Len(old.boards) \notin ValidPlies(old)
           /\ \A i \in ValidPlies(old) : new.boards[i + 1] = old.boards[i + 1]

C12_Address == [][C12_AddressStep]_vars

\* ply 2 of a timeline that starts at (1, White) was returned for (2, White)
C12_Witness ==
  /\ last.op = "board_on_turn"
  /\ last.time = 2 /\ last.color = WHITE
  /\ timeline(Pos, last.line).startTime = 1
  /\ timeline(Pos, last.line).startColor = WHITE
  /\ Len(timeline(Pos, last.line).boards) >= 3
  /\ last.board = timeline(Pos, last.line).boards[3]
  /\ last.board # timeline(Pos, last.line).boards[1]

(***************************************************************************)
(* C15. Out-of-range ply access is an error: board_on_turn(time, color)    *)
(* whose ply index is negative or at least the number of boards ends in an *)
(* error and returns no board.                                             *)
(***************************************************************************)
C15_OutOfRangeFails ==
  (/\ last.op = "board_on_turn"
   /\ PlyIndex(timeline(Pos, last.line), last.time, last.color)
         \notin ValidPlies(timeline(Pos, last.line))) =>
     /\ status = "crashed"
     /\ last.board = 0

(***************************************************************************)
(* C13. Board precondition violations are fatal: put_piece on an occupied  *)
(* square and remove_piece on an empty square end in an error, and neither *)
(* changes the squares, the location lists, the counts or the reverse      *)
(* index of the board.                                                     *)
(***************************************************************************)
C13_MisuseStep ==
  (\/ last'.op = "put_piece" /\ ~empty(heap[ret], last'.sq)
   \/ last'.op = "remove_piece" /\ empty(heap[ret], last'.sq)) =>
     /\ ~Running'
     /\ heap'[ret].board = heap[ret].board
     /\ heap'[ret].pieceList = heap[ret].pieceList
     /\ heap'[ret].pieceCount = heap[ret].pieceCount
     /\ heap'[ret].index = heap[ret].index

C13_MisuseFatal == [][C13_MisuseStep]_vars

(***************************************************************************)
(* C14. Branching from a nonexistent source fails loudly: new_timeline     *)
(* with a timeline index that names no timeline, or with a time whose ply  *)
(* for the mover is negative or at least the length of that timeline, ends *)
(* in an error, returns no board, appends no timeline and leaves the       *)
(* active counters, timeOfPresent and every active flag unchanged.         *)
(***************************************************************************)
\* (line, time) names a ply of a timeline for the mover
HasSource(line, time) ==
  /\ line \in LineIds(Pos)
  /\ PlyIndex(timeline(Pos, line), time, sideToMove) \in ValidPlies(timeline(Pos, line))

C14_NoSourceStep ==
  (last'.op \in {"new_timeline", "assert"} /\ ~HasSource(last'.line, last'.time)) =>
     /\ ~Running'
     /\ ret' = 0
     /\ UNCHANGED <<negativeLines, positiveLines, activePositiveLines,
                    activeNegativeLines, timeOfPresent>>

C14_NoSourceFails == [][C14_NoSourceStep]_vars

(***************************************************************************)
(* C16. Activation is permanent and idempotent: activate() on an active    *)
(* timeline changes nothing; a timeline that is active stays active in     *)
(* every later state, and no active counter ever decreases.                *)
(***************************************************************************)
C16_PermanentStep ==
  /\ \A i \in 1..Len(positiveLines) :
        positiveLines[i].active =>
           /\ i <= Len(positiveLines')
           /\ positiveLines'[i].active
           /\ activate(positiveLines[i]) = positiveLines[i]
  /\ \A i \in 1..Len(negativeLines) :
        negativeLines[i].active =>
           /\ i <= Len(negativeLines')
           /\ negativeLines'[i].active
           /\ activate(negativeLines[i]) = negativeLines[i]
  /\ activePositiveLines' >= activePositiveLines
  /\ activeNegativeLines' >= activeNegativeLines

C16_Permanent == [][C16_PermanentStep]_vars

\* a White branch activated a negative timeline that was active already:
\* the counter was raised, the flag was set before
C16_Witness ==
  /\ last.op = "new_timeline"
  /\ last.mover = WHITE
  /\ last.own < last.opp - 1
  /\ status = "unchecked"
  /\ negativeLines[last.own + 2].active
  /\ activeNegativeLines > ActiveNegative

(***************************************************************************)
(* C17. Branching is additive: each completed new_timeline appends exactly *)
(* one timeline at the end of the mover's collection, keeps the length of  *)
(* the other collection, keeps every earlier timeline at its index with    *)
(* its startTime, startColor and boards in order, and the new timeline     *)
(* holds at least one board; no step removes or reorders a timeline or a   *)
(* board.                                                                  *)
(***************************************************************************)
\* timeline new is timeline old with the same start and the same boards
SameLine(old, new) ==
  /\ new.startTime = old.startTime
  /\ new.startColor = old.startColor
  /\ new.boards = old.boards

\* timeline new is timeline old, possibly with boards appended
GrownLine(old, new) ==
  /\ new.startTime = old.startTime
  /\ new.startColor = old.startColor
  /\ Len(new.boards) >= Len(old.boards)
  /\ \A k \in 1..Len(old.boards) : new.boards[k] = old.boards[k]

C17_AdditiveStep ==
  /\ BranchStep =>
        /\ AppendedOnMoverSide
        /\ \A i \in 1..Len(positiveLines) : SameLine(positiveLines[i], positiveLines'[i])
        /\ \A i \in 1..Len(negativeLines) : SameLine(negativeLines[i], negativeLines'[i])
        /\ Len(NewLine.boards) >= 1
  /\ Len(positiveLines') >= Len(positiveLines)
  /\ Len(negativeLines') >= Len(negativeLines)
  /\ \A i \in 1..Len(positiveLines) : GrownLine(positiveLines[i], positiveLines'[i])
  /\ \A i \in 1..Len(negativeLines) : GrownLine(negativeLines[i], negativeLines'[i])
  /\ Len(heap') >= Len(heap)

C17_Additive == [][C17_AdditiveStep]_vars

\* a Black branch became the second negative timeline next to a timeline
\* that holds two boards
C17_Witness ==
  /\ last.op = "new_timeline"
  /\ last.mover = BLACK
  /\ Len(negativeLines) = 2
  /\ Len(LastLine.boards) = 1
  /\ \E i \in 1..Len(positiveLines) : Len(positiveLines[i].boards) = 2

\* this step is a completed new_timeline in the secondary-activation case
SecondaryStep == BranchStep /\ OwnCount(Pos) < OppCount(Pos) - 1

\* the timeline index of the balancing timeline for the mover
BalancingLine ==
  IF sideToMove = WHITE THEN -(OwnCount(Pos) + 2) ELSE OwnCount(Pos) + 2

\* timeline l after the step
LineAfter(l) == IF l >= 0 THEN positiveLines'[l + 1] ELSE negativeLines'[-l]

\* the timelines that existed before the step and whose flag the step changed
FlagChanged == {l \in LineIds(Pos) : LineAfter(l).active # timeline(Pos, l).active}

(***************************************************************************)
(* C18. Balancing index, as claimed: in the secondary-activation case the  *)
(* one earlier timeline whose active flag changes is timeline              *)
(* -(ownCount + 2) for a White mover and +(ownCount + 2) for a Black       *)
(* mover; it exists, every other earlier timeline keeps its flag, and      *)
(* timeOfPresent becomes the minimum of its old value, the branch's start  *)
(* time and that timeline's start time.                                    *)
(***************************************************************************)
C18_BalancingStep ==
  SecondaryStep =>
     /\ BalancingLine \in LineIds(Pos)
     /\ FlagChanged = {BalancingLine}
     /\ timeOfPresent' =
           Min(timeOfPresent,
               Min(NewLine.startTime, timeline(Pos, BalancingLine).startTime))

C18_BalancingCheckedStep ==
  SecondaryStep =>
     /\ BalancingLine \in LineIds(Pos)
     /\ LineAfter(BalancingLine).active
     /\ FlagChanged \subseteq {BalancingLine}
     /\ ~timeline(Pos, BalancingLine).active => FlagChanged = {BalancingLine}
     /\ timeline(Pos, BalancingLine).active => FlagChanged = {}
     /\ timeOfPresent' =
           Min(timeOfPresent,
               Min(NewLine.startTime, timeline(Pos, BalancingLine).startTime))

C19_AssertHolds ==
  BalancedInput =>
     /\ status = "running"
     /\ \A c \in Color : BranchAssert([Pos EXCEPT !.sideToMove = c])

\* from a balanced start a Black branch took the secondary activation
C19_Witness ==
  /\ BalancedInput
  /\ last.op = "new_timeline"
  /\ last.mover = BLACK
  /\ last.own < last.opp - 1
  /\ positiveLines[last.own + 3].active
  /\ status = "running"

(***************************************************************************)
(* C20. Negative timeline ordering at initialization: after set with n     *)
(* negative FENs, timeline -k (negative slot k-1) holds the board decoded  *)
(* from the (n-k)-th negative FEN counted from 0, so the first FEN given   *)
(* is the timeline furthest from the centre and the last one is timeline   *)
(* -1; timeline +j holds the board decoded from the j-th positive FEN,     *)
(* timeline 0 being the central one.                                       *)
(***************************************************************************)
\* the one board of timeline l is the board decoded from fenStr
HoldsFen(l, fenStr) ==
  /\ Len(timeline(Pos, l).boards) = 1
  /\ heap[timeline(Pos, l).boards[1]] = Board2DSet(fenStr)
  /\ heap[timeline(Pos, l).boards[1]].sideToMove = FenSide(fenStr)

C20_SetOrder ==
  last.op = "set" =>
     LET n == Len(negativeFENs)
     IN /\ LineIds(Pos) = (-n)..(Len(positiveFENs) - 1)
        /\ \A k \in 1..n :
              /\ timeline(Pos, -k) = negativeLines[(k - 1) + 1]
              /\ HoldsFen(-k, negativeFENs[(n - k) + 1])
        /\ \A j \in 0..(Len(positiveFENs) - 1) :
              /\ timeline(Pos, j) = positiveLines[j + 1]
              /\ HoldsFen(j, positiveFENs[j + 1])

\* set has loaded two different negative FENs: the first one given is
\* timeline -2, the second one timeline -1
C20_Witness ==
  /\ last.op = "set"
  /\ Len(negativeFENs) = 2
  /\ FenSide(negativeFENs[1]) = WHITE
  /\ FenSide(negativeFENs[2]) = BLACK
  /\ heap[timeline(Pos, -2).boards[1]].sideToMove = WHITE
  /\ heap[timeline(Pos, -1).boards[1]].sideToMove = BLACK

(***************************************************************************)
(* C21. Exclusive board ownership: in every state reached by set and any   *)
(* sequence of new_timeline calls, no board is referred to by more than    *)
(* one ply slot, within one timeline or across timelines; each branch      *)
(* creates a new board that only ply 0 of the new timeline refers to.      *)
(***************************************************************************)
\* the board that ply slot sl refers to
SlotBoard(sl) == timeline(Pos, sl[1]).boards[sl[2]]

C21_Exclusive ==
  /\ \A s1, s2 \in PlySlots : s1 # s2 => SlotBoard(s1) # SlotBoard(s2)
  /\ \A sl \in PlySlots : SlotBoard(sl) \in 1..Len(heap)
  /\ last.op = "new_timeline" =>
        /\ ret = Len(heap)
        /\ ret # last.src
        /\ {sl \in PlySlots : SlotBoard(sl) = ret} =
              {<<IF last.mover = WHITE THEN positive_timeline_count(Pos)
                 ELSE -(negative_timeline_count(Pos)), 1>>}

\* a branch of a timeline that holds two boards: four ply slots at least,
\* and the new board equals its source square by square
C21_Witness ==
  /\ last.op = "new_timeline"
  /\ Cardinality(PlySlots) >= 4
  /\ Len(timeline(Pos, last.line).boards) = 2
  /\ ret # last.src
  /\ heap[ret].board = heap[last.src].board

(***************************************************************************)
(* C22. Present pointer: in every state reached by set and any sequence of *)
(* new_timeline calls with either mover, timeOfPresent is the minimum      *)
(* start time over all timelines whose active flag is set, the central one *)
(* included, and timeOfPresent never increases from a state to the next.   *)
(***************************************************************************)
\* the start times of the active timelines of position P
ActiveStarts(P) ==
  {timeline(P, l).startTime : l \in {x \in LineIds(P) : timeline(P, x).active}}

\* P.timeOfPresent is the least start time of an active timeline
PresentIsMin(P) ==
  /\ P.timeOfPresent \in ActiveStarts(P)
  /\ \A t \in ActiveStarts(P) : P.timeOfPresent <= t

C22_PresentStep ==
  /\ PresentIsMin(Pos)
  /\ PresentIsMin(Pos')
  /\ timeOfPresent' <= timeOfPresent

C22_Present == [][C22_PresentStep]_vars

\* an active timeline starts at time 2, after the present
C22_Witness ==
  /\ last.op = "new_timeline"
  /\ \E i \in 1..Len(negativeLines) :
        negativeLines[i].active /\ negativeLines[i].startTime = 2
  /\ \E i \in 1..Len(positiveLines) : ~positiveLines[i].active
  /\ timeOfPresent = 1

(***************************************************************************)
(* C23. Branching does not pass the global turn: new_timeline leaves the   *)
(* Position's sideToMove unchanged, so consecutive calls are made by the   *)
(* same mover and append to the same side's collection; from a             *)
(* central-only Position this gives at most one active non-central         *)
(* timeline, every later branch being inactive.                            *)
(***************************************************************************)
\* P was set with the central timeline only and has branches on one side
\* at most: the first of them is active, every later one is inactive
OneSidedShape(P, negFENs, posFENs) ==
  (/\ Len(negFENs) = 0
   /\ Len(posFENs) = 1
   /\ (Len(P.negativeLines) = 0 \/ Len(P.positiveLines) = 1)) =>
     /\ \A i \in 1..Len(P.negativeLines) : P.negativeLines[i].active <=> i = 1
     /\ \A i \in 2..Len(P.positiveLines) : P.positiveLines[i].active <=> i = 2
     /\ Cardinality({l \in LineIds(P) \ {0} : timeline(P, l).active}) <= 1

C23_SameMoverStep ==
  /\ BranchStep =>
        /\ sideToMove' = sideToMove
        /\ AppendedOnMoverSide
        /\ last.op = "new_timeline" => last'.mover = last.mover
  /\ OneSidedShape(Pos, negativeFENs, positiveFENs)
  /\ OneSidedShape(Pos', negativeFENs', positiveFENs')

C23_SameMover == [][C23_SameMoverStep]_vars

\* three branches of a central-only Position, all by White: the first one
\* is active, the other two are not
C23_Witness ==
  /\ last.op = "new_timeline"
  /\ Len(negativeFENs) = 0 /\ Len(positiveFENs) = 1
  /\ Len(negativeLines) = 0
  /\ Len(positiveLines) = 4
  /\ Len(heap) = 4
  /\ positiveLines[2].active
  /\ ~positiveLines[3].active /\ ~positiveLines[4].active
  /\ sideToMove = WHITE

====
